---- MODULE Spec2Model ----
(***************************************************************************)
(* Model of the HEAD-CRAB supervision core.                                *)
(*                                                                         *)
(*   RedundancyManager (src/unnamed/part_000): the worker map keyed by     *)
(*   process id, the exit handler with its restart budget, the restart     *)
(*   timers, the health monitor and increaseRedundancy.                    *)
(*                                                                         *)
(*   HeadCrabWatchdog (src/persistence-guarantee.js): the probe loop with  *)
(*   its failure counter and the recovery attempt.                         *)
(*                                                                         *)
(* The main process is a single-threaded event loop: every callback (exit  *)
(* event, restart timer, health tick) runs to completion, so each is one   *)
(* action.                                                                 *)
(***************************************************************************)
EXTENDS Integers, Sequences, FiniteSets, Bags

VARIABLES
    phase,          \* "new" after the constructor, "running" after setupMasterProcess
    workers,        \* this.workers: process handle -> [id, restartCount, dead]; dead is
                    \* what worker.isDead() answers. startTime is left out: only the
                    \* uptime figures read it.
    failoverQueue,  \* this.failoverQueue: sequence of worker ids
    healthChecks,   \* this.healthChecks: id -> [status]; the pid, uptime and restarts of a
                    \* snapshot are written and never read
    restartTimers,  \* pending setTimeout callbacks of handleWorkerFailure: a bag of the
                    \* workerInfo each closed over
    now,            \* Date.now() in units of healthCheckInterval
    exitCount,      \* exit events handled so far, per worker id
    lastTick,       \* history: what the last health tick computed and did
    lastCall,       \* history: the pool sizes around the last direct increaseRedundancy call
    lastExit,       \* history: the last exit event handled for a given handle, and its effect
    failureCount,   \* HeadCrabWatchdog.failureCount
    probing,        \* watchdog tick callbacks waiting in `await this.checkHeadCrab()`
    wdRun,          \* history: length of the current run of not-alive observations
    wdRunRecoveries,\* history: recovery attempts started during the current run
    wdObserved,     \* history: probes completed so far
    wdLast,         \* history: what the last completed probe saw and did, and the
                    \* counter it started from
    wdAttempts,     \* the restartHeadCrab() calls so far, in order: for each, the state
                    \* of the `head-crab` command and of the recovery script it leads to
    fs,             \* the persistence locations on disk: site -> artifact -> content
                    \* (Absent when the site has no readable copy)
    installed,      \* what the recovery script leaves in the system: executable bits at
                    \* the primary, the global command alias, the launch daemon
    launches,       \* `node head-crab-boot.js &` executions by the recovery script
    recLast,        \* history: the last run of the recovery script
    registry,       \* the document the last createChecksumRegistry() returned
    registryAt,     \* checksum-registry.json at each site
    regLast,        \* history: the last createChecksumRegistry(): what each
                    \* calculateChecksum call returned and which sites took the document
    repFs,          \* the replication sites on disk: site index -> artifact -> content
    repReachable,   \* the backup sites that can be written to at all
    repPc,          \* where replicateData() stands: its phase and the loop indices
    repAttempts,    \* history: the copies attempted by the pass, in order
    repNotices,     \* the site notices the pass has logged, in order
    bootPhase,      \* HeadCrabBoot main process: "new", "starting" (in startCoreServices),
                    \* "running" (keepAlive set), "failed" (boot() rejected), "exited"
    bootNext,       \* index of the service startCoreServices turns to next
    processes,      \* this.processes of HeadCrabBoot: the service names it holds
    children,       \* the service processes in the OS: service name -> "none",
                    \* "running", "signalled" (kill() sent, still there) or "gone"
    bootExit,       \* why the main process ended: "none", "signal" or "idle"
    scripts,        \* the service scripts found beside head-crab-boot.js
    cacheIndex,     \* GitHubCache.index: cache key -> timestamp of the entry
    cacheFiles,     \* the <key>.json entry files in cacheDir
    cacheStats,     \* GitHubCache.stats
    cacheNow,       \* Date.now() as the cache sees it
    cacheExpected,  \* history: what set() was last asked to store under each key, and when
    cacheLast       \* history: the last cache call and how it ended

supVars == <<phase, workers, failoverQueue, healthChecks, restartTimers, now,
             exitCount, lastTick, lastCall, lastExit>>

wdVars == <<failureCount, probing, wdRun, wdRunRecoveries, wdObserved, wdLast,
            wdAttempts>>

perVars == <<fs, installed, launches, recLast, registry, registryAt, regLast>>

repVars == <<repFs, repReachable, repPc, repAttempts, repNotices>>

bootVars == <<bootPhase, bootNext, processes, children, bootExit, scripts>>

cacheVars == <<cacheIndex, cacheFiles, cacheStats, cacheNow, cacheExpected, cacheLast>>

envVars == <<perVars, repVars, bootVars, cacheVars>>

\* everything but the persistence layer, and everything but the replication sites
exceptPer == <<supVars, wdVars, repVars, bootVars, cacheVars>>

exceptRep == <<supVars, wdVars, perVars, bootVars, cacheVars>>

exceptBoot == <<supVars, wdVars, perVars, repVars, cacheVars>>

exceptCache == <<supVars, wdVars, perVars, repVars, bootVars>>

vars == <<supVars, wdVars, envVars>>

----------------------------------------------------------------------------
(* Bounds and configuration *)

\* os.cpus().length of the host
Cpus == 3

\* health ticks modelled (each one advances Date.now())
MaxTicks == 2

\* exit events modelled, over all workers
MaxExits == 8

\* direct increaseRedundancy() calls modelled
MaxCalls == 3

\* watchdog probes modelled
MaxObservations == 10

\* watchdog tick callbacks that may wait for their probe at the same time
MaxProbes == 2

\* persistence locations modelled, the primary first
NumSites == 3

\* runs of the recovery script modelled
MaxRecoveries == 2

\* runs of createChecksumRegistry modelled
MaxBuilds == 1

\* options.maxSize of the cache under test
CacheMaxSize == 2

\* options.ttl of the cache under test, in clock steps
CacheTtl == 1

\* clock steps of the cache modelled
MaxClock == 2

\* evictions counted before the model stops calling evictIfNeeded
MaxEvictions == 3

maxFailures == 3

maxRestartAttempts == 5

Min(a, b) == IF a < b THEN a ELSE b

maxWorkers == Min(Cpus, 8)

InitialWorkers == Min(3, maxWorkers)

WorkerId(i) == <<"worker", i>>

BackupId(t) == <<"backup", t>>

Ids == {WorkerId(i) : i \in 0..2} \cup {BackupId(t) : t \in 0..(MaxTicks + MaxCalls)}

NoTick == [ticked |-> FALSE, alive |-> 0, requests |-> 0]

NoCall == [calls |-> 0, start |-> 0, before |-> 0, after |-> 0]

NoExit == [seen |-> FALSE, pid |-> <<>>, known |-> FALSE, same |-> TRUE]

NoProbe == [seen |-> FALSE, alive |-> TRUE, recovered |-> FALSE, before |-> 0,
            main |-> TRUE, afterFailed |-> FALSE]

\* the watchdog as constructed
WatchdogInit ==
    /\ failureCount = 0
    /\ probing = 0
    /\ wdRun = 0
    /\ wdRunRecoveries = 0
    /\ wdObserved = 0
    /\ wdLast = NoProbe
    /\ wdAttempts = <<>>

\* persistenceLocations / LOCATIONS by index; Primary is baseDir
Sites == 0..(NumSites - 1)

Primary == 0

BootFile == "head-crab-boot.js"

\* the artifacts followed: the boot entry file, a regular script and the hidden
\* environment file
Files == {BootFile, "memory-indexer.js", ".env"}

\* names the shell pattern `*` does not expand to
Hidden == {".env"}

Absent == 0

\* RECOVERY_LOCATION="" : no location chosen
NoLocation == -1

NoRegistry == [locations |-> {}, files |-> [f \in {} |-> Absent], integrity |-> "none"]

NoRecovery == [runs |-> 0, site |-> NoLocation, outcome |-> "none"]

NothingInstalled == [execBits |-> {}, alias |-> FALSE, daemon |-> FALSE]

NoBuild == [builds |-> 0, writable |-> {}, sums |-> <<>>]

\* the persistence layer before anything was written or restored
PersistenceIdle ==
    /\ fs = [s \in Sites |-> [f \in Files |-> Absent]]
    /\ installed = NothingInstalled
    /\ launches = 0
    /\ recLast = NoRecovery
    /\ registry = NoRegistry
    /\ registryAt = [s \in Sites |-> NoRegistry]
    /\ regLast = NoBuild

\* this.config.replicationSites, the primary site first (index 0 in the code)
replicationSites ==
    <<"/Volumes/Macintosh HD/usr/local/head-crab", "/tmp/head-crab-backup",
      "~/.head-crab/backup">>

\* the manifest of replicateData
criticalFiles ==
    <<"memory-indexer.js", "github-oauth-client.js", "rate-limiter.js", ".env",
      "workflow-control.json">>

RepSites == 0..(Len(replicationSites) - 1)

primarySite == 0

Backups == RepSites \ {primarySite}

Manifest == {criticalFiles[j] : j \in 1..Len(criticalFiles)}

\* the content of an artifact as the primary holds it
Current == 2

\* the content of an artifact as an earlier pass left it at a backup site
Stale == 1

NoPass == [phase |-> "idle", i |-> 0, j |-> 0]

\* the replication sites before any pass, nothing stored
ReplicationIdle ==
    /\ repFs = [s \in RepSites |-> [f \in Manifest |-> Absent]]
    /\ repReachable = {}
    /\ repPc = NoPass
    /\ repAttempts = <<>>
    /\ repNotices = <<>>

\* the services of startCoreServices, in order
services ==
    <<[name |-> "Memory Indexer", critical |-> FALSE],
      [name |-> "Archive Scheduler", critical |-> FALSE],
      [name |-> "Dashboard", critical |-> TRUE]>>

ServiceNames == {services[k].name : k \in 1..Len(services)}

\* HeadCrabBoot as constructed, nothing spawned
BootIdle ==
    /\ bootPhase = "new"
    /\ bootNext = 1
    /\ processes = {}
    /\ children = [n \in ServiceNames |-> "none"]
    /\ bootExit = "none"
    /\ scripts = {}

NoStats == [hits |-> 0, misses |-> 0, writes |-> 0, evictions |-> 0]

NoCacheCall == [op |-> "none", key |-> <<>>, result |-> "none"]

\* the cache as constructed, before init()
CacheIdle ==
    /\ cacheIndex = <<>>
    /\ cacheFiles = {}
    /\ cacheStats = NoStats
    /\ cacheNow = 0
    /\ cacheExpected = <<>>
    /\ cacheLast = NoCacheCall

EnvIdle == PersistenceIdle /\ ReplicationIdle /\ BootIdle /\ CacheIdle

----------------------------------------------------------------------------
(* Helpers over the worker map *)

Size(ws) == Cardinality(DOMAIN ws)

\* cluster.fork(): the new process gets a handle no registered worker has. Handles are
\* opaque, so the process forked as the n-th incarnation of id is named <<id, n, 0>>,
\* and <<id, n, k>> for the least free k should that handle be taken.
ForkPid(ws, id, n) ==
    LET k == CHOOSE k \in 0..Size(ws) :
                 /\ <<id, n, k>> \notin DOMAIN ws
                 /\ \A j \in 0..(k - 1) : <<id, n, j>> \in DOMAIN ws
    IN  <<id, n, k>>

WithRecord(ws, pid, rec) ==
    [p \in DOMAIN ws \cup {pid} |-> IF p = pid THEN rec ELSE ws[p]]

Without(ws, pid) == [p \in DOMAIN ws \ {pid} |-> ws[p]]

\* forkWorker(id): registers a record with restartCount 0 under the new pid
forkWorker(ws, id, n) ==
    WithRecord(ws, ForkPid(ws, id, n), [id |-> id, restartCount |-> 0, dead |-> FALSE])

\* worker.isDead(). The process's exit code is set in the same callback that emits the
\* cluster 'exit' event, whose handler removes the record: a record of the map is
\* never dead.
isDead(info) == info.dead

ActiveIds(ws) == {ws[p].id : p \in DOMAIN ws}

RECURSIVE SumOver(_, _)
SumOver(f, S) ==
    IF S = {} THEN 0
    ELSE LET x == CHOOSE x \in S : TRUE IN f[x] + SumOver(f, S \ {x})

TotalExits == SumOver(exitCount, Ids)

----------------------------------------------------------------------------
(* RedundancyManager: the handlers *)

\* constructor: empty maps, empty queue
Init ==
    /\ phase = "new"
    /\ workers = <<>>
    /\ failoverQueue = <<>>
    /\ healthChecks = <<>>
    /\ restartTimers = EmptyBag
    /\ now = 0
    /\ exitCount = [i \in Ids |-> 0]
    /\ lastTick = NoTick
    /\ lastCall = NoCall
    /\ lastExit = NoExit
    /\ WatchdogInit
    /\ EnvIdle

\* the fork loop of setupMasterProcess: worker-0 .. worker-(n-1)
RECURSIVE forkInitial(_, _)
forkInitial(ws, i) ==
    IF i < InitialWorkers THEN forkInitial(forkWorker(ws, WorkerId(i), 0), i + 1) ELSE ws

\* handleWorkerFailure without the return after the push: retires and restarts
handleWorkerFailure_NoReturn(ws, fq, rt, pid) ==
    IF pid \notin DOMAIN ws
    THEN [workers |-> ws, failoverQueue |-> fq, restartTimers |-> rt]
    ELSE LET workerInfo == ws[pid]
             timer == [id |-> workerInfo.id, restartCount |-> workerInfo.restartCount]
         IN  [workers |-> Without(ws, pid),
              failoverQueue |-> IF workerInfo.restartCount >= maxRestartAttempts
                                THEN Append(fq, workerInfo.id) ELSE fq,
              restartTimers |-> rt (+) SetToBag({timer})]

\* handleWorkerFailure without the delete of the record
handleWorkerFailure_KeepRecord(ws, fq, rt, pid) ==
    IF pid \notin DOMAIN ws
    THEN [workers |-> ws, failoverQueue |-> fq, restartTimers |-> rt]
    ELSE LET workerInfo == ws[pid] IN
         IF workerInfo.restartCount >= maxRestartAttempts
         THEN [workers |-> ws,
               failoverQueue |-> Append(fq, workerInfo.id),
               restartTimers |-> rt]
         ELSE [workers |-> ws,
               failoverQueue |-> fq,
               restartTimers |-> rt (+) SetToBag({[id |-> workerInfo.id,
                                                   restartCount |-> workerInfo.restartCount]})]

\* handleWorkerFailure with > for >= in the restart limit
handleWorkerFailure_OffByOne(ws, fq, rt, pid) ==
    IF pid \notin DOMAIN ws
    THEN [workers |-> ws, failoverQueue |-> fq, restartTimers |-> rt]
    ELSE LET workerInfo == ws[pid] IN
         IF workerInfo.restartCount > maxRestartAttempts
         THEN [workers |-> Without(ws, pid),
               failoverQueue |-> Append(fq, workerInfo.id),
               restartTimers |-> rt]
         ELSE [workers |-> Without(ws, pid),
               failoverQueue |-> fq,
               restartTimers |-> rt (+) SetToBag({[id |-> workerInfo.id,
                                                   restartCount |-> workerInfo.restartCount]})]

\* handleWorkerFailure(worker): the state it leaves, for the worker with process id pid
handleWorkerFailure(ws, fq, rt, pid) ==
    IF pid \notin DOMAIN ws
    THEN [workers |-> ws, failoverQueue |-> fq, restartTimers |-> rt]
    ELSE LET workerInfo == ws[pid] IN
         IF workerInfo.restartCount >= maxRestartAttempts
         THEN [workers |-> Without(ws, pid),
               failoverQueue |-> Append(fq, workerInfo.id),
               restartTimers |-> rt]
         ELSE [workers |-> Without(ws, pid),
               failoverQueue |-> fq,
               restartTimers |-> rt (+) SetToBag({[id |-> workerInfo.id,
                                                   restartCount |-> workerInfo.restartCount]})]

\* the restart callback that forks nothing
restartCallback_NoFork(ws, workerInfo, n) == ws

\* the restart callback without the restartCount assignment: forkWorker's 0 stays
restartCallback_NoIncrement(ws, workerInfo, n) == forkWorker(ws, workerInfo.id, n)

\* the setTimeout callback of handleWorkerFailure, with the workerInfo it closed over
restartCallback(ws, workerInfo, n) ==
    LET newPid == ForkPid(ws, workerInfo.id, n)
        forked == forkWorker(ws, workerInfo.id, n)
    IN  [forked EXCEPT ![newPid].restartCount = workerInfo.restartCount + 1]

\* the snapshot loop of the health tick: one entry per id of the worker map; entries of
\* ids no longer in the map stay as they are
snapshot(ws, hc) ==
    [id \in DOMAIN hc \cup ActiveIds(ws) |->
        IF id \in ActiveIds(ws)
        THEN LET p == CHOOSE p \in DOMAIN ws : ws[p].id = id
             IN  [status |-> IF isDead(ws[p]) THEN "dead" ELSE "alive"]
        ELSE hc[id]]

\* Array.from(healthChecks.values()).filter(h => h.status === 'alive').length
aliveCount(hc) == Cardinality({id \in DOMAIN hc : hc[id].status = "alive"})

\* the decision with the threshold one too low
lowRedundancyCalls_Below1(alive) == IF alive < 1 THEN 1 ELSE 0

\* the health tick's decision to call increaseRedundancy: the number of calls it makes
lowRedundancyCalls(alive) == IF alive < 2 THEN 1 ELSE 0

\* increaseRedundancy with <= for < in the capacity test
increaseRedundancy_NoCap(ws, t, n) ==
    IF Size(ws) <= maxWorkers THEN forkWorker(ws, BackupId(t), n) ELSE ws

\* increaseRedundancy with an id that does not depend on the time of the call
increaseRedundancy_FixedId(ws, t, n) ==
    IF Size(ws) < maxWorkers THEN forkWorker(ws, BackupId(0), n) ELSE ws

\* increaseRedundancy() called at time t
increaseRedundancy(ws, t, n) ==
    IF Size(ws) < maxWorkers THEN forkWorker(ws, BackupId(t), n) ELSE ws

\* the classification with MEDIUM and HIGH one step early
redundancyLevel_Shifted(aliveWorkers) ==
    IF aliveWorkers >= 2 THEN "HIGH"
    ELSE IF aliveWorkers >= 1 THEN "MEDIUM"
    ELSE "CRITICAL"

\* calculateRedundancyLevel() on a given alive count
redundancyLevel(aliveWorkers) ==
    IF aliveWorkers >= 3 THEN "HIGH"
    ELSE IF aliveWorkers >= 2 THEN "MEDIUM"
    ELSE IF aliveWorkers >= 1 THEN "LOW"
    ELSE "CRITICAL"

calculateRedundancyLevel == redundancyLevel(aliveCount(healthChecks))

\* a / b as JavaScript computes it for a >= 0, b >= 0, kept as a fraction: 0 / 0 is
\* NaN and a / 0 is Infinity for a > 0
Divide(a, b) ==
    [kind |-> IF b # 0 THEN "number" ELSE IF a = 0 THEN "NaN" ELSE "Infinity",
     num |-> a, den |-> b]

\* q / c for a constant c > 0: NaN and Infinity stay what they are
DivideBy(q, c) == [q EXCEPT !.den = @ * c]

\* the uptimes Date.now() - w.startTime, in milliseconds, a status call may find
Uptimes == {0, 1500}

\* getRedundancyStatus(), uptimes[p] being Date.now() - startTime of the record at p
getRedundancyStatus(uptimes) ==
    [totalWorkers |-> Size(workers),
     aliveWorkers |-> aliveCount(healthChecks),
     failedWorkers |-> Len(failoverQueue),
     averageUptime |-> DivideBy(Divide(SumOver(uptimes, DOMAIN workers), Size(workers)), 1000),
     replicationSites |-> Len(replicationSites),
     redundancyLevel |-> calculateRedundancyLevel]

\* the statuses the status timer of main(), set once setupMasterProcess is through, can
\* log in the current state
Statuses == {getRedundancyStatus(uptimes) : uptimes \in [DOMAIN workers -> Uptimes]}

----------------------------------------------------------------------------
(* RedundancyManager: the actions *)

SetupMasterProcess ==
    /\ phase = "new"
    /\ phase' = "running"
    /\ workers' = forkInitial(workers, 0)
    /\ UNCHANGED <<failoverQueue, healthChecks, restartTimers, now, exitCount,
                   lastTick, lastCall, lastExit>>
    /\ UNCHANGED <<wdVars, envVars>>

\* cluster 'exit' event of a registered worker
WorkerExit(pid) ==
    /\ phase = "running"
    /\ pid \in DOMAIN workers
    /\ TotalExits < MaxExits
    /\ LET r == handleWorkerFailure(workers, failoverQueue, restartTimers, pid) IN
        /\ workers' = r.workers
        /\ failoverQueue' = r.failoverQueue
        /\ restartTimers' = r.restartTimers
    /\ exitCount' = [exitCount EXCEPT ![workers[pid].id] = @ + 1]
    /\ UNCHANGED <<phase, healthChecks, now, lastTick, lastCall, lastExit>>
    /\ UNCHANGED <<wdVars, envVars>>

\* a pending restart timer fires. Timers of equal delay fire in the order they were set;
\* the model lets any pending one fire, which covers that order.
RestartTimerFires(t) ==
    /\ phase = "running"
    /\ BagIn(t, restartTimers)
    /\ workers' = restartCallback(workers, t, exitCount[t.id])
    /\ restartTimers' = restartTimers (-) SetToBag({t})
    /\ UNCHANGED <<phase, failoverQueue, healthChecks, now, exitCount, lastTick, lastCall,
                   lastExit>>
    /\ UNCHANGED <<wdVars, envVars>>

\* one callback of the health monitor's setInterval
HealthTick ==
    /\ phase = "running"
    /\ now < MaxTicks
    /\ now' = now + 1
    /\ LET hc == snapshot(workers, healthChecks)
           alive == aliveCount(hc)
           calls == lowRedundancyCalls(alive)
       IN  /\ healthChecks' = hc
           /\ workers' = IF calls = 1
                         THEN increaseRedundancy(workers, now', exitCount[BackupId(now')])
                         ELSE workers
           /\ lastTick' = [ticked |-> TRUE, alive |-> alive, requests |-> calls]
    /\ UNCHANGED <<phase, failoverQueue, restartTimers, exitCount, lastCall, lastExit>>
    /\ UNCHANGED <<wdVars, envVars>>

Next ==
    \/ SetupMasterProcess
    \/ \E pid \in DOMAIN workers : WorkerExit(pid)
    \/ \E t \in BagToSet(restartTimers) : RestartTimerFires(t)
    \/ HealthTick

Spec == Init /\ [][Next]_vars

----------------------------------------------------------------------------
(* increaseRedundancy() as an operation of its own: called directly, on any pool *)

\* The pools the calls start from, after the first health tick: each initial worker is
\* on its first or second incarnation or waits for its first restart, and the backup of
\* the first tick, if one was spawned, is on its first or second incarnation.
PoolShapes ==
    [{WorkerId(i) : i \in 0..(InitialWorkers - 1)} -> {"first", "second", "pending"}]

BackupShapes == {"none", "first", "second"}

IncarnationOf(shape) == IF shape = "second" THEN 1 ELSE 0

PoolOf(shape, backup) ==
    LET ids == {id \in DOMAIN shape : shape[id] # "pending"}
                 \cup (IF backup = "none" THEN {} ELSE {BackupId(1)})
        inc(id) == IncarnationOf(IF id = BackupId(1) THEN backup ELSE shape[id])
    IN  [p \in {<<id, inc(id), 0>> : id \in ids} |->
            [id |-> p[1], restartCount |-> p[2], dead |-> FALSE]]

InitInc ==
    \E shape \in PoolShapes, backup \in BackupShapes :
        /\ phase = "running"
        /\ workers = PoolOf(shape, backup)
        /\ failoverQueue = <<>>
        /\ healthChecks = snapshot(PoolOf(shape, "none"), <<>>)
        /\ restartTimers = SetToBag({[id |-> id, restartCount |-> 0] :
                                        id \in {i \in DOMAIN shape : shape[i] = "pending"}})
        /\ now = 1
        /\ exitCount = [id \in Ids |->
                           IF id \in DOMAIN shape
                           THEN (IF shape[id] = "first" THEN 0 ELSE 1)
                           ELSE IF id = BackupId(1) THEN IncarnationOf(backup) ELSE 0]
        /\ lastTick = NoTick
        /\ lastCall = [NoCall EXCEPT !.start = Size(PoolOf(shape, backup))]
        /\ lastExit = NoExit
        /\ WatchdogInit
        /\ EnvIdle

\* one call of increaseRedundancy(), later than the one before
IncreaseRedundancyCall ==
    /\ lastCall.calls < MaxCalls
    /\ now' = now + 1
    /\ workers' = increaseRedundancy(workers, now', exitCount[BackupId(now')])
    /\ lastCall' = [calls |-> lastCall.calls + 1, start |-> lastCall.start,
                    before |-> Size(workers), after |-> Size(workers')]
    /\ UNCHANGED <<phase, failoverQueue, healthChecks, restartTimers, exitCount, lastTick,
                   lastExit>>
    /\ UNCHANGED <<wdVars, envVars>>

NextInc == IncreaseRedundancyCall

SpecInc == InitInc /\ [][NextInc]_vars

----------------------------------------------------------------------------
(* RedundancyManager: exit events, for handles with and without a record *)

\* the restart counts the initial workers start from: fresh, one restart short of the
\* limit, or at the limit
StartCounts == {0, maxRestartAttempts - 1, maxRestartAttempts}

\* a handle that forkWorker never registered
StrayPid == <<<<"stray", 0>>, 0, 0>>

\* the master some time after setupMasterProcess: every initial worker is running,
\* after as many exits and restarts as its restartCount says
InitExit ==
    \E counts \in [{WorkerId(i) : i \in 0..(InitialWorkers - 1)} -> StartCounts] :
        /\ phase = "running"
        /\ workers = [p \in {<<id, counts[id], 0>> : id \in DOMAIN counts} |->
                          [id |-> p[1], restartCount |-> p[2], dead |-> FALSE]]
        /\ failoverQueue = <<>>
        /\ healthChecks = <<>>
        /\ restartTimers = EmptyBag
        /\ now = 0
        /\ exitCount = [id \in Ids |-> IF id \in DOMAIN counts THEN counts[id] ELSE 0]
        /\ lastTick = NoTick
        /\ lastCall = NoCall
        /\ lastExit = NoExit
        /\ WatchdogInit
        /\ EnvIdle

\* handleWorkerFailure(worker) for any handle, registered or not
ExitEvent(pid) ==
    /\ phase = "running"
    /\ LET r == handleWorkerFailure(workers, failoverQueue, restartTimers, pid) IN
        /\ workers' = r.workers
        /\ failoverQueue' = r.failoverQueue
        /\ restartTimers' = r.restartTimers
        /\ lastExit' = [seen |-> TRUE, pid |-> pid, known |-> pid \in DOMAIN workers,
                        same |-> r = [workers |-> workers, failoverQueue |-> failoverQueue,
                                      restartTimers |-> restartTimers]]
    /\ exitCount' = IF pid \in DOMAIN workers
                    THEN [exitCount EXCEPT ![workers[pid].id] = @ + 1]
                    ELSE exitCount
    /\ UNCHANGED <<phase, healthChecks, now, lastTick, lastCall>>
    /\ UNCHANGED <<wdVars, envVars>>

NextExit ==
    \/ \E pid \in DOMAIN workers \cup {StrayPid} : ExitEvent(pid)
    \/ \E t \in BagToSet(restartTimers) : RestartTimerFires(t)

SpecExit == InitExit /\ [][NextExit]_vars

\* the timers handleWorkerFailure can set for the initial workers
RestartTimers ==
    [id : {WorkerId(i) : i \in 0..(InitialWorkers - 1)},
     restartCount : 0..(maxRestartAttempts - 1)]

\* setTimeout: a pending timer fires once its delay has passed
SpecExitFair == SpecExit /\ \A t \in RestartTimers : WF_vars(RestartTimerFires(t))

----------------------------------------------------------------------------
(* HeadCrabWatchdog: the generated watchdog loop *)

SupervisorIdle ==
    /\ phase = "new"
    /\ workers = <<>>
    /\ failoverQueue = <<>>
    /\ healthChecks = <<>>
    /\ restartTimers = EmptyBag
    /\ now = 0
    /\ exitCount = [i \in Ids |-> 0]
    /\ lastTick = NoTick
    /\ lastCall = NoCall
    /\ lastExit = NoExit

InitWd == SupervisorIdle /\ WatchdogInit /\ EnvIdle

\* the tick callback without the reset that follows restartHeadCrab()
afterProbe_NoReset(count, isRunning) ==
    IF ~isRunning
    THEN [failureCount |-> count + 1, recover |-> count + 1 >= maxFailures]
    ELSE [failureCount |-> 0, recover |-> FALSE]

\* the tick callback that keeps the counter on an alive observation
afterProbe_KeepOnAlive(count, isRunning) ==
    IF ~isRunning
    THEN IF count + 1 >= maxFailures
         THEN [failureCount |-> 0, recover |-> TRUE]
         ELSE [failureCount |-> count + 1, recover |-> FALSE]
    ELSE [failureCount |-> count, recover |-> FALSE]

\* the tick callback of startWatching from the probe's answer on: the counter it
\* leaves and whether it called restartHeadCrab()
afterProbe(count, isRunning) ==
    IF ~isRunning
    THEN IF count + 1 >= maxFailures
         THEN [failureCount |-> 0, recover |-> TRUE]
         ELSE [failureCount |-> count + 1, recover |-> FALSE]
    ELSE [failureCount |-> 0, recover |-> FALSE]

\* restartHeadCrab(): exec('head-crab') is started and the call returns; the command's
\* callback runs later
restartHeadCrab == [global |-> "running", script |-> "idle", scriptRuns |-> 0]

\* the callback of exec('head-crab') that starts the recovery script whatever the
\* command's outcome
onGlobalEnd_Always(attempt, error) ==
    [attempt EXCEPT !.global = IF error THEN "error" ELSE "ok",
                    !.script = "running", !.scriptRuns = @ + 1]

\* the callback of exec('head-crab'): only an error starts the recovery script
onGlobalEnd(attempt, error) ==
    IF error
    THEN [attempt EXCEPT !.global = "error", !.script = "running", !.scriptRuns = @ + 1]
    ELSE [attempt EXCEPT !.global = "ok"]

\* the callback of the recovery script that throws its error instead of logging it
onScriptEnd_Throw(attempt, error) ==
    [attempt EXCEPT !.script = IF error THEN "thrown" ELSE "ok"]

\* the callback of exec('/usr/local/bin/head-crab-recovery.sh'): an error is logged
onScriptEnd(attempt, error) ==
    [attempt EXCEPT !.script = IF error THEN "error" ELSE "ok"]

\* an attempt whose command and recovery script have both ended with an error
Failed(attempt) == attempt.global = "error" /\ attempt.script \notin {"idle", "running", "ok"}

\* the watchdog process lives, and its interval timer with it, as long as no callback
\* has thrown
Watching == \A a \in 1..Len(wdAttempts) : wdAttempts[a].script # "thrown"

\* command lines a process of the host may have
MainCommand == "node head-crab-boot.js"

WatchdogCommand == "node head-crab-watchdog.js"

OtherCommand == "node server.js"

CommandLines == {MainCommand, WatchdogCommand, OtherCommand}

\* pgrep -f "head-crab": the processes whose command line contains head-crab
pgrep(table) == table \cap {MainCommand, WatchdogCommand}

\* checkHeadCrab(): pgrep printed at least one pid
checkHeadCrab(table) == pgrep(table) # {}

\* the interval timer fires: the callback starts its probe and waits for the answer
WatchdogTick ==
    /\ Watching
    /\ probing < MaxProbes
    /\ probing + wdObserved < MaxObservations
    /\ probing' = probing + 1
    /\ UNCHANGED <<failureCount, wdRun, wdRunRecoveries, wdObserved, wdLast, wdAttempts>>
    /\ UNCHANGED <<supVars, envVars>>

\* pgrep, run against the process table of that moment, answers a waiting callback,
\* which runs to its end
ProbeAnswers(table) ==
    /\ Watching
    /\ probing > 0
    /\ probing' = probing - 1
    /\ LET isRunning == checkHeadCrab(table)
           r == afterProbe(failureCount, isRunning)
       IN
        /\ failureCount' = r.failureCount
        /\ wdRunRecoveries' = IF isRunning THEN 0
                              ELSE wdRunRecoveries + (IF r.recover THEN 1 ELSE 0)
        /\ wdLast' = [seen |-> TRUE, alive |-> isRunning, recovered |-> r.recover,
                      before |-> failureCount, main |-> MainCommand \in table,
                      afterFailed |-> \E a \in 1..Len(wdAttempts) : Failed(wdAttempts[a])]
        /\ wdAttempts' = IF r.recover THEN Append(wdAttempts, restartHeadCrab)
                                      ELSE wdAttempts
        /\ wdRun' = IF isRunning THEN 0 ELSE wdRun + 1
    /\ wdObserved' = wdObserved + 1
    /\ UNCHANGED <<supVars, envVars>>

\* the `head-crab` command of attempt a ends (the service it started exits, or the
\* command could not be run) and its callback runs
GlobalCommandEnds(a, error) ==
    /\ Watching
    /\ a \in 1..Len(wdAttempts)
    /\ wdAttempts[a].global = "running"
    /\ wdAttempts' = [wdAttempts EXCEPT ![a] = onGlobalEnd(@, error)]
    /\ UNCHANGED <<failureCount, probing, wdRun, wdRunRecoveries, wdObserved, wdLast>>
    /\ UNCHANGED <<supVars, envVars>>

\* the recovery script of attempt a ends and its callback runs
RecoveryScriptEnds(a, error) ==
    /\ Watching
    /\ a \in 1..Len(wdAttempts)
    /\ wdAttempts[a].script = "running"
    /\ wdAttempts' = [wdAttempts EXCEPT ![a] = onScriptEnd(@, error)]
    /\ UNCHANGED <<failureCount, probing, wdRun, wdRunRecoveries, wdObserved, wdLast>>
    /\ UNCHANGED <<supVars, envVars>>

NextWd ==
    \/ WatchdogTick
    \/ \E table \in SUBSET CommandLines : ProbeAnswers(table)
    \/ \E a \in 1..Len(wdAttempts), error \in BOOLEAN : GlobalCommandEnds(a, error)
    \/ \E a \in 1..Len(wdAttempts), error \in BOOLEAN : RecoveryScriptEnds(a, error)

SpecWd == InitWd /\ [][NextWd]_vars

----------------------------------------------------------------------------
(* PersistenceGuarantee: the master recovery script *)

\* the content of the copy a site holds: sites of equal parity hold equal copies
ContentAt(s) == 1 + (s % 2)

\* the disk on which site s holds exactly the artifacts present[s]
FsOf(present) ==
    [s \in Sites |-> [f \in Files |-> IF f \in present[s] THEN ContentAt(s) ELSE Absent]]

\* any disk, nothing installed, no script run yet
InitRec ==
    /\ SupervisorIdle
    /\ WatchdogInit
    /\ \E present \in [Sites -> SUBSET Files] : fs = FsOf(present)
    /\ installed = NothingInstalled
    /\ launches = 0
    /\ recLast = NoRecovery
    /\ registry = NoRegistry
    /\ registryAt = [s \in Sites |-> NoRegistry]
    /\ regLast = NoBuild
    /\ ReplicationIdle
    /\ BootIdle
    /\ CacheIdle

RECURSIVE selectRecoveryLocation_NoBreak(_, _)
\* the scan loop without its `break`: the last location with the boot file wins
selectRecoveryLocation_NoBreak(files, i) ==
    IF i >= NumSites THEN NoLocation
    ELSE LET later == selectRecoveryLocation_NoBreak(files, i + 1) IN
         IF later # NoLocation THEN later
         ELSE IF files[i][BootFile] # Absent THEN i ELSE NoLocation

RECURSIVE selectRecoveryLocation(_, _)
\* the scan loop from LOCATIONS[i] on: the first location where
\* [ -f "$location/head-crab-boot.js" ] holds, then `break`
selectRecoveryLocation(files, i) ==
    IF i >= NumSites THEN NoLocation
    ELSE IF files[i][BootFile] # Absent THEN i
    ELSE selectRecoveryLocation(files, i + 1)

\* cp -r "$RECOVERY_LOCATION/"* "$PRIMARY/" : the pattern expands to the names that do
\* not start with a dot; copying the primary onto itself changes nothing
cpTree(files, from) ==
    IF from = Primary THEN files
    ELSE [files EXCEPT ![Primary] =
            [f \in Files |-> IF files[from][f] # Absent /\ f \notin Hidden
                             THEN files[from][f] ELSE @[f]]]

\* the script from "Restoring HEAD-CRAB from" to its end
restore(files, inst, n, from) ==
    LET copied == cpTree(files, from) IN
    [fs        |-> copied,
     installed |-> [execBits |-> inst.execBits \cup
                                   {f \in {BootFile} : copied[Primary][f] # Absent},
                    alias    |-> TRUE,
                    daemon   |-> TRUE],
     launches  |-> n + 1,
     site      |-> from,
     outcome   |-> "complete"]

\* the script without `exit 1`: it goes on to the restore with no location chosen
masterRecovery_NoExit(files, inst, n) ==
    LET from == selectRecoveryLocation(files, 0) IN
    IF from = NoLocation
    THEN [restore(files, inst, n, Primary) EXCEPT !.site = NoLocation, !.outcome = "fatal"]
    ELSE restore(files, inst, n, from)

\* one run of head-crab-recovery.sh
masterRecovery(files, inst, n) ==
    LET from == selectRecoveryLocation(files, 0) IN
    IF from = NoLocation
    THEN [fs |-> files, installed |-> inst, launches |-> n,
          site |-> NoLocation, outcome |-> "fatal"]
    ELSE restore(files, inst, n, from)

RunRecoveryScript ==
    /\ recLast.runs < MaxRecoveries
    /\ LET r == masterRecovery(fs, installed, launches) IN
        /\ fs' = r.fs
        /\ installed' = r.installed
        /\ launches' = r.launches
        /\ recLast' = [runs |-> recLast.runs + 1, site |-> r.site, outcome |-> r.outcome]
    /\ UNCHANGED <<registry, registryAt, regLast>>
    /\ UNCHANGED exceptPer

NextRec == RunRecoveryScript

SpecRec == InitRec /\ [][NextRec]_vars

----------------------------------------------------------------------------
(* PersistenceGuarantee: the checksum registry *)

\* what calculateChecksum returns in its catch branch
Null == <<>>

\* crypto.createHash('sha256').update(data).digest('hex'), taken as collision free
sha256(data) == <<"sha256", data>>

\* calculateChecksum reading the primary's copy whatever the location asked for
calculateChecksum_Primary(files, s, f) ==
    IF files[Primary][f] = Absent THEN Null ELSE sha256(files[Primary][f])

\* calculateChecksum hashing whatever the read gave, a missing file included
calculateChecksum_HashMissing(files, s, f) == sha256(files[s][f])

\* calculateChecksum(path.join(location, file))
calculateChecksum(files, s, f) ==
    IF files[s][f] = Absent THEN Null ELSE sha256(files[s][f])

\* registry.files after the two loops: an artifact gets an entry at its first truthy
\* checksum, a location gets a key only for a truthy checksum
registryFiles(files) ==
    LET sums(f) == {s \in Sites : calculateChecksum(files, s, f) # Null} IN
    [f \in {g \in Files : sums(g) # {}} |->
        [s \in sums(f) |-> calculateChecksum(files, s, f)]]

\* the registry document (its creation time and version string are left out)
newRegistry(files) ==
    [locations |-> Sites, files |-> registryFiles(files), integrity |-> "guaranteed"]

InitReg == InitRec

RECURSIVE saveRegistry_StopAtFailure(_, _, _, _)
\* the save loop without its try/catch: the first rejected write ends the loop
saveRegistry_StopAtFailure(at, doc, writable, i) ==
    IF i >= NumSites \/ i \notin writable THEN at
    ELSE saveRegistry_StopAtFailure([at EXCEPT ![i] = doc], doc, writable, i + 1)

RECURSIVE saveRegistry(_, _, _, _)
\* the save loop from persistenceLocations[i] on: writeFile of the document at every
\* location, a rejected write caught and skipped
saveRegistry(at, doc, writable, i) ==
    IF i >= NumSites THEN at
    ELSE saveRegistry(IF i \in writable THEN [at EXCEPT ![i] = doc] ELSE at,
                      doc, writable, i + 1)

\* createChecksumRegistry(), the locations in writable accepting the document
CreateChecksumRegistry(writable) ==
    /\ regLast.builds < MaxBuilds
    /\ registry' = newRegistry(fs)
    /\ registryAt' = saveRegistry(registryAt, newRegistry(fs), writable, 0)
    /\ regLast' = [builds |-> regLast.builds + 1, writable |-> writable,
                   sums |-> [s \in Sites |-> [f \in Files |-> calculateChecksum(fs, s, f)]]]
    /\ UNCHANGED <<fs, installed, launches, recLast>>
    /\ UNCHANGED exceptPer

NextReg == \E writable \in SUBSET Sites : CreateChecksumRegistry(writable)

SpecReg == InitReg /\ [][NextReg]_vars

----------------------------------------------------------------------------
(* RedundancyManager: replicateData *)

\* the primary holds any part of the manifest, each backup directory is empty or holds
\* the copies of an earlier pass, and any set of them can be written to
InitRep ==
    /\ SupervisorIdle
    /\ WatchdogInit
    /\ PersistenceIdle
    /\ BootIdle
    /\ CacheIdle
    /\ \E present \in SUBSET Manifest, stale \in SUBSET Backups :
          repFs = [s \in RepSites |->
                     [f \in Manifest |-> IF s = primarySite /\ f \in present THEN Current
                                         ELSE IF s \in stale THEN Stale
                                         ELSE Absent]]
    /\ repReachable \in SUBSET Backups
    /\ repPc = NoPass
    /\ repAttempts = <<>>
    /\ repNotices = <<>>

\* the loops without the inner try: a failed copy leaves the site's loop through the
\* outer catch, which logs the failure notice
afterAttempt_AbortSite(i, j, ok) ==
    IF ~ok
    THEN [i |-> i + 1, j |-> 1, notices |-> <<[site |-> i, kind |-> "failure"]>>]
    ELSE IF j < Len(criticalFiles)
    THEN [i |-> i, j |-> j + 1, notices |-> <<>>]
    ELSE [i |-> i + 1, j |-> 1, notices |-> <<[site |-> i, kind |-> "success"]>>]

\* the loops nested the other way round: artifacts outside, sites inside
afterAttempt_FilesOuter(i, j, ok) ==
    IF i < Len(replicationSites) - 1
    THEN [i |-> i + 1, j |-> j, notices |-> <<>>]
    ELSE IF j < Len(criticalFiles)
    THEN [i |-> 1, j |-> j + 1, notices |-> <<>>]
    ELSE [i |-> Len(replicationSites), j |-> 1, notices |-> <<>>]

\* where the loops of replicateData go after the copy of artifact j at site i, and
\* what they log on the way: the inner catch swallows a failed copy, and the line
\* after the inner loop logs the site's notice
afterAttempt(i, j, ok) ==
    IF j < Len(criticalFiles)
    THEN [i |-> i, j |-> j + 1, notices |-> <<>>]
    ELSE [i |-> i + 1, j |-> 1, notices |-> <<[site |-> i, kind |-> "success"]>>]

\* the copy with source and destination exchanged
copyFile_Reversed(fsys, source, dest, file, writable) ==
    LET data == fsys[dest][file] IN
    IF data = Absent \/ ~writable
    THEN [fs |-> fsys, ok |-> FALSE]
    ELSE [fs |-> [fsys EXCEPT ![source][file] = data], ok |-> TRUE]

\* the copy that leaves a file the destination already has as it is
copyFile_KeepExisting(fsys, source, dest, file, writable) ==
    LET data == fsys[source][file] IN
    IF data = Absent \/ ~writable
    THEN [fs |-> fsys, ok |-> FALSE]
    ELSE [fs |-> IF fsys[dest][file] = Absent THEN [fsys EXCEPT ![dest][file] = data]
                                             ELSE fsys,
          ok |-> TRUE]

\* readFile(source) then writeFile(dest, data) inside the inner try: a missing source
\* or a failing write leaves the files as they are
copyFile(fsys, source, dest, file, writable) ==
    LET data == fsys[source][file] IN
    IF data = Absent \/ ~writable
    THEN [fs |-> fsys, ok |-> FALSE]
    ELSE [fs |-> [fsys EXCEPT ![dest][file] = data], ok |-> TRUE]

\* replicateData() is called: the outer loop starts at the first backup site
StartReplication ==
    /\ repPc.phase = "idle"
    /\ repPc' = [phase |-> "running", i |-> 1, j |-> 1]
    /\ UNCHANGED <<repFs, repReachable, repAttempts, repNotices>>
    /\ UNCHANGED exceptRep

\* one turn of the inner loop: read artifact j at the primary, write it to site i.
\* The read fails when the primary has no such file; the write fails at a site that
\* cannot be written to, and may fail at any site (writeOk).
CopyAttempt(writeOk) ==
    /\ repPc.phase = "running"
    /\ LET i == repPc.i
           file == criticalFiles[repPc.j]
           data == repFs[primarySite][file]
           copy == copyFile(repFs, primarySite, i, file, i \in repReachable /\ writeOk)
           ok == copy.ok
           next == afterAttempt(i, repPc.j, ok)
       IN /\ (~writeOk) => (data # Absent /\ i \in repReachable)
          /\ repFs' = copy.fs
          /\ repAttempts' = Append(repAttempts, [site |-> i, artifact |-> repPc.j, ok |-> ok,
                                                 before |-> repFs[i][file]])
          /\ repNotices' = repNotices \o next.notices
          /\ repPc' = IF next.i < Len(replicationSites)
                      THEN [phase |-> "running", i |-> next.i, j |-> next.j]
                      ELSE [phase |-> "done", i |-> next.i, j |-> next.j]
    /\ UNCHANGED repReachable
    /\ UNCHANGED exceptRep

NextRep ==
    \/ StartReplication
    \/ \E writeOk \in BOOLEAN : CopyAttempt(writeOk)

SpecRep == InitRep /\ [][NextRep]_vars

----------------------------------------------------------------------------
(* HeadCrabBoot: startCoreServices, keepAlive and shutdown *)

\* boot() has reached startCoreServices: attachToSystem has installed the SIGINT and
\* SIGTERM handlers, and any of the service scripts may be missing
InitBoot ==
    /\ SupervisorIdle
    /\ WatchdogInit
    /\ PersistenceIdle
    /\ ReplicationIdle
    /\ CacheIdle
    /\ bootPhase = "starting"
    /\ bootNext = 1
    /\ processes = {}
    /\ children = [n \in ServiceNames |-> "none"]
    /\ bootExit = "none"
    /\ scripts \in SUBSET ServiceNames

\* one turn of the loop of startCoreServices for service k: what it does to the
\* process map and whether the error leaves the loop
startService(k, found) ==
    IF services[k].name \in found
    THEN [spawned |-> {services[k].name}, thrown |-> FALSE]
    ELSE [spawned |-> {}, thrown |-> services[k].critical]

\* one turn of startCoreServices; after the last service boot() goes on to keepAlive(),
\* and a thrown error rejects boot(), which main() only logs
StartNextService ==
    /\ bootPhase = "starting"
    /\ LET r == startService(bootNext, scripts) IN
        /\ processes' = processes \cup r.spawned
        /\ children' = [n \in ServiceNames |->
                           IF n \in r.spawned THEN "running" ELSE children[n]]
        /\ bootPhase' = IF r.thrown THEN "failed"
                        ELSE IF bootNext = Len(services) THEN "running"
                        ELSE "starting"
    /\ bootNext' = bootNext + 1
    /\ UNCHANGED <<bootExit, scripts>>
    /\ UNCHANGED exceptBoot

\* a service process ends on its own; its handle stays in this.processes (keepAlive
\* drops only handles on which kill() was called)
ServiceEnds(n) ==
    /\ bootPhase # "exited"
    /\ children[n] = "running"
    /\ children' = [children EXCEPT ![n] = "gone"]
    /\ UNCHANGED <<bootPhase, bootNext, processes, bootExit, scripts>>
    /\ UNCHANGED exceptBoot

\* shutdown(): proc.kill() sends SIGTERM to every process of the map and returns, then
\* process.exit(0)
shutdown(procs, kids) ==
    [n \in ServiceNames |-> IF n \in procs /\ kids[n] = "running" THEN "signalled"
                            ELSE kids[n]]

\* SIGINT or SIGTERM reaches the main process
Signal ==
    /\ bootPhase \in {"starting", "running", "failed"}
    /\ children' = shutdown(processes, children)
    /\ bootPhase' = "exited"
    /\ bootExit' = "signal"
    /\ UNCHANGED <<bootNext, processes, scripts>>
    /\ UNCHANGED exceptBoot

\* a signalled service process ends
SignalledServiceEnds(n) ==
    /\ children[n] = "signalled"
    /\ children' = [children EXCEPT ![n] = "gone"]
    /\ UNCHANGED <<bootPhase, bootNext, processes, bootExit, scripts>>
    /\ UNCHANGED exceptBoot

\* boot() was rejected before keepAlive(): no timer is set, so once no child process is
\* left the event loop is empty and the main process ends
LoopDrains ==
    /\ bootPhase = "failed"
    /\ \A n \in ServiceNames : children[n] # "running"
    /\ bootPhase' = "exited"
    /\ bootExit' = "idle"
    /\ UNCHANGED <<bootNext, processes, children, scripts>>
    /\ UNCHANGED exceptBoot

NextBoot ==
    \/ StartNextService
    \/ \E n \in ServiceNames : ServiceEnds(n)
    \/ Signal
    \/ \E n \in ServiceNames : SignalledServiceEnds(n)
    \/ LoopDrains

SpecBoot == InitBoot /\ [][NextBoot]_vars

----------------------------------------------------------------------------
(* GitHubCache *)

\* the request paths used, all with method GET and params {}
RequestPaths == <<"/repos/test/a", "/repos/test/b", "/repos/test/c">>

CachedData == {"data-1", "data-2"}

\* what the name `path` means at module level: require('path')
PathModule == "require('path')"

\* generateKey: md5 of "method:path:params", taken as collision free
generateKey(method, path, params) == <<"md5", method, path, params>>

CacheKeys == {generateKey("GET", RequestPaths[i], "{}") : i \in 1..Len(RequestPaths)}

\* path.join(this.cacheDir, ...) evaluated where the name `path` is bound to binding:
\* a string has no join method
pathJoin(binding) == IF binding = PathModule THEN "ok" ELSE "TypeError"

Drop(f, keys) == [k \in DOMAIN f \ keys |-> f[k]]

Put(f, key, value) == [k \in DOMAIN f \cup {key} |-> IF k = key THEN value ELSE f[k]]

\* delete(key): unlink the entry file and then removeFromIndex; a failed unlink is
\* caught and leaves the index as it is
delete(st, key) ==
    IF pathJoin(PathModule) = "ok" /\ key \in DOMAIN st.files
    THEN [st EXCEPT !.files = Drop(@, {key}), !.index = Drop(@, {key})]
    ELSE st

\* the entries evictIfNeeded picks: the entries.length - maxSize oldest ones
toEvict(index) ==
    {k \in DOMAIN index :
        Cardinality({j \in DOMAIN index : index[j] < index[k]})
            < Cardinality(DOMAIN index) - CacheMaxSize}

\* evictIfNeeded(): delete() for each picked entry, the counter raised for each
evictIfNeeded(st) ==
    IF Cardinality(DOMAIN st.index) <= CacheMaxSize THEN st
    ELSE LET picked == toEvict(st.index) IN
         [st EXCEPT !.files = Drop(@, picked),
                    !.index = Drop(@, picked \cap DOMAIN st.files),
                    !.stats.evictions = @ + Cardinality(picked)]

\* set(method, path, params, data): the parameter `path` hides the module, so the
\* path.join before the try throws for a string path
set(st, method, path, params, data, t) ==
    LET key == generateKey(method, path, params) IN
    IF pathJoin(path) = "TypeError"
    THEN [st |-> st, result |-> "TypeError"]
    ELSE [st |-> evictIfNeeded([st EXCEPT
                                   !.files = Put(@, key, [data |-> data, timestamp |-> t]),
                                   !.stats.writes = @ + 1,
                                   !.index = Put(@, key, t)]),
          result |-> "stored"]

\* get(method, path, params): the same hidden module
get(st, method, path, params, t) ==
    LET key == generateKey(method, path, params) IN
    IF pathJoin(path) = "TypeError"
    THEN [st |-> st, result |-> "TypeError"]
    ELSE IF key \notin DOMAIN st.files
    THEN [st |-> [st EXCEPT !.stats.misses = @ + 1], result |-> "null"]
    ELSE IF t - st.files[key].timestamp > CacheTtl
    THEN [st |-> [delete(st, key) EXCEPT !.stats.misses = @ + 1], result |-> "null"]
    ELSE [st |-> [st EXCEPT !.stats.hits = @ + 1], result |-> st.files[key].data]

\* clear(): every .json file of cacheDir is unlinked and {} is saved as the index
\* file; this.index itself is not reset
clear(st) == [st EXCEPT !.files = <<>>]

CacheState == [index |-> cacheIndex, files |-> cacheFiles, stats |-> cacheStats]

\* after init(): loadIndex() has read whatever index.json held, and any of the entry
\* files may exist; the entry of the i-th path is i clock steps old
InitCache ==
    /\ SupervisorIdle
    /\ WatchdogInit
    /\ PersistenceIdle
    /\ ReplicationIdle
    /\ BootIdle
    /\ \E indexed \in SUBSET (1..Len(RequestPaths)) :
          cacheIndex = [k \in {generateKey("GET", RequestPaths[i], "{}") : i \in indexed} |->
                           0 - (CHOOSE i \in indexed :
                                    k = generateKey("GET", RequestPaths[i], "{}"))]
    /\ \E onDisk \in SUBSET (1..Len(RequestPaths)) :
          cacheFiles = [k \in {generateKey("GET", RequestPaths[i], "{}") : i \in onDisk} |->
                           [data |-> "data-1",
                            timestamp |-> 0 - (CHOOSE i \in onDisk :
                                    k = generateKey("GET", RequestPaths[i], "{}"))]]
    /\ cacheStats = NoStats
    /\ cacheNow = 0
    /\ cacheExpected = <<>>
    /\ cacheLast = NoCacheCall

CacheSet(path, data) ==
    /\ LET r == set(CacheState, "GET", path, "{}", data, cacheNow)
           key == generateKey("GET", path, "{}")
       IN /\ cacheIndex' = r.st.index
          /\ cacheFiles' = r.st.files
          /\ cacheStats' = r.st.stats
          /\ cacheExpected' = Drop(Put(cacheExpected, key, [data |-> data, time |-> cacheNow]),
                                   DOMAIN cacheExpected \ (DOMAIN r.st.index \cup {key}))
          /\ cacheLast' = [op |-> "set", key |-> key, result |-> r.result]
    /\ UNCHANGED cacheNow
    /\ UNCHANGED exceptCache

CacheGet(path) ==
    /\ LET r == get(CacheState, "GET", path, "{}", cacheNow)
           key == generateKey("GET", path, "{}")
       IN /\ cacheIndex' = r.st.index
          /\ cacheFiles' = r.st.files
          /\ cacheStats' = r.st.stats
          /\ cacheLast' = [op |-> "get", key |-> key, result |-> r.result]
    /\ UNCHANGED <<cacheNow, cacheExpected>>
    /\ UNCHANGED exceptCache

CacheDelete(key) ==
    /\ LET st == delete(CacheState, key) IN
          /\ cacheIndex' = st.index
          /\ cacheFiles' = st.files
          /\ cacheStats' = st.stats
    /\ cacheExpected' = Drop(cacheExpected, {key})
    /\ cacheLast' = [op |-> "delete", key |-> key, result |-> "done"]
    /\ UNCHANGED cacheNow
    /\ UNCHANGED exceptCache

CacheClear ==
    /\ LET st == clear(CacheState) IN
          /\ cacheIndex' = st.index
          /\ cacheFiles' = st.files
          /\ cacheStats' = st.stats
    /\ cacheExpected' = <<>>
    /\ cacheLast' = [op |-> "clear", key |-> <<>>, result |-> "done"]
    /\ UNCHANGED cacheNow
    /\ UNCHANGED exceptCache

CacheEvict ==
    /\ cacheStats.evictions < MaxEvictions
    /\ LET st == evictIfNeeded(CacheState) IN
          /\ cacheIndex' = st.index
          /\ cacheFiles' = st.files
          /\ cacheStats' = st.stats
          /\ cacheExpected' = Drop(cacheExpected, DOMAIN cacheFiles \ DOMAIN st.files)
    /\ cacheLast' = [op |-> "evict", key |-> <<>>, result |-> "done"]
    /\ UNCHANGED cacheNow
    /\ UNCHANGED exceptCache

CacheTick ==
    /\ cacheNow < MaxClock
    /\ cacheNow' = cacheNow + 1
    /\ UNCHANGED <<cacheIndex, cacheFiles, cacheStats, cacheExpected, cacheLast>>
    /\ UNCHANGED exceptCache

NextCache ==
    \/ \E i \in 1..Len(RequestPaths), data \in CachedData : CacheSet(RequestPaths[i], data)
    \/ \E i \in 1..Len(RequestPaths) : CacheGet(RequestPaths[i])
    \/ \E key \in CacheKeys : CacheDelete(key)
    \/ CacheClear
    \/ CacheEvict
    \/ CacheTick

SpecCache == InitCache /\ [][NextCache]_vars

----------------------------------------------------------------------------
(* Claims about the worker pool supervisor *)

TimerOf(info) == [id |-> info.id, restartCount |-> info.restartCount]

PendingFor(id) == {t \in BagToSet(restartTimers) : t.id = id}

ActiveFor(id) == {p \in DOMAIN workers : workers[p].id = id}

Retired(id) == \E i \in 1..Len(failoverQueue) : failoverQueue[i] = id

\* C1: every exit event of a registered worker either appends the worker's id to the
\* failover queue and schedules nothing (restartCount >= maxRestartAttempts), or
\* schedules exactly one restart and appends nothing; never both, never neither.
C1_ExitOutcome ==
    [][\A pid \in DOMAIN workers :
          pid \notin DOMAIN workers' =>
             LET info == workers[pid] IN
             IF info.restartCount >= maxRestartAttempts
             THEN /\ failoverQueue' = Append(failoverQueue, info.id)
                  /\ restartTimers' = restartTimers
             ELSE /\ failoverQueue' = failoverQueue
                  /\ restartTimers' = restartTimers (+) SetToBag({TimerOf(info)})
                  /\ BagCardinality(restartTimers') = BagCardinality(restartTimers) + 1]_vars

\* both outcomes have happened: one worker is retired, another waits for its restart
C1_Witness ==
    /\ Len(failoverQueue) > 0
    /\ BagCardinality(restartTimers) > 0

\* C2 as stated: on worker-1's 5th exit it is appended to the failover queue (and no
\* further restart is scheduled).
C2_RetiredOnFifthExit ==
    exitCount[WorkerId(1)] >= 5 =>
        /\ Retired(WorkerId(1))
        /\ PendingFor(WorkerId(1)) = {}

\* C2 amended: worker-1's n-th exit, n = 1..5, schedules a restart whose record has
\* restartCount n; its 6th exit, with restartCount 5, appends it to the failover queue
\* and schedules no 6th restart.
C2_RetiredOnSixthExit ==
    LET w1 == WorkerId(1)
        n == exitCount[w1]
    IN  /\ n <= maxRestartAttempts + 1
        /\ n <= maxRestartAttempts =>
              /\ ~Retired(w1)
              /\ \/ /\ PendingFor(w1) = {}
                    /\ phase = "running" => \E p \in ActiveFor(w1) : workers[p].restartCount = n
                 \/ /\ ActiveFor(w1) = {}
                    /\ PendingFor(w1) = {[id |-> w1, restartCount |-> n - 1]}
        /\ n = maxRestartAttempts + 1 =>
              /\ Retired(w1)
              /\ PendingFor(w1) = {}
              /\ ActiveFor(w1) = {}

\* the scenario's end: worker-1 retired after six exits, worker-0 and worker-2 untouched
C2_Witness ==
    /\ exitCount[WorkerId(1)] = 6
    /\ failoverQueue = <<WorkerId(1)>>
    /\ exitCount[WorkerId(0)] = 0 /\ exitCount[WorkerId(2)] = 0
    /\ \A i \in {0, 2} : \E p \in ActiveFor(WorkerId(i)) : workers[p].restartCount = 0

\* C3: the record a restart creates carries the restartCount of the record removed at
\* the preceding exit plus one, and every state shows each active record with the
\* number of exits its id has had, so no respawn is seen with a smaller count.
C3_RestartCountMonotone ==
    /\ [](\A p \in DOMAIN workers : workers[p].restartCount = exitCount[workers[p].id])
    /\ [][BagCardinality(restartTimers') < BagCardinality(restartTimers) =>
            \E t \in BagToSet(restartTimers) :
               /\ restartTimers' = restartTimers (-) SetToBag({t})
               /\ \E p \in DOMAIN workers' \ DOMAIN workers :
                     /\ DOMAIN workers' = DOMAIN workers \cup {p}
                     /\ workers'[p].id = t.id
                     /\ workers'[p].restartCount = t.restartCount + 1]_vars

\* a worker on its third incarnation
C3_Witness == \E p \in DOMAIN workers : workers[p].restartCount = 2

\* C4: the number of active worker records never exceeds maxWorkers.
C4_PoolWithinMaxWorkers == Size(workers) <= maxWorkers

\* C7: the redundancy level is CRITICAL, LOW, MEDIUM, HIGH for an alive count of
\* 0, 1, 2, 3 or more.
C7_Classification ==
    LET n == aliveCount(healthChecks) IN
    calculateRedundancyLevel =
        CASE n = 0 -> "CRITICAL"
          [] n = 1 -> "LOW"
          [] n = 2 -> "MEDIUM"
          [] OTHER -> "HIGH"

C7_Witness ==
    /\ aliveCount(healthChecks) = 2
    /\ calculateRedundancyLevel = "MEDIUM"

\* C8: a health tick issues exactly one increaseRedundancy() request when its
\* aliveCount is below 2 and none otherwise, on every tick.
C8_OneRequestPerLowTick ==
    /\ [](lastTick.ticked =>
            /\ lastTick.alive = aliveCount(healthChecks)
            /\ lastTick.requests = IF lastTick.alive < 2 THEN 1 ELSE 0)
    /\ [][now' # now =>
            IF aliveCount(healthChecks') < 2
            THEN /\ lastTick'.requests = 1
                 /\ workers' = increaseRedundancy(workers, now', exitCount[BackupId(now')])
            ELSE /\ lastTick'.requests = 0
                 /\ workers' = workers]_vars

\* the scenario: a tick observed one worker alive and asked for one more
C8_Witness ==
    /\ lastTick.ticked
    /\ lastTick.alive = 1
    /\ lastTick.requests = 1
    /\ calculateRedundancyLevel = "LOW"

\* C9: at every health tick the aliveCount equals the number of active worker records
\* whose process is alive at that tick.
C9_AliveCountIsActiveAlive ==
    [][now' # now =>
          aliveCount(healthChecks') =
              Cardinality({p \in DOMAIN workers : ~isDead(workers[p])})]_vars

----------------------------------------------------------------------------
(* Claims about increaseRedundancy() *)

\* C5: from a pool of at most maxWorkers records, any sequence of increaseRedundancy()
\* calls leaves at most maxWorkers records.
C5_CallsKeepPoolWithinMaxWorkers ==
    lastCall.start <= maxWorkers => Size(workers) <= maxWorkers

\* calls filled the pool up to maxWorkers and the last one was made on the full pool
C5_Witness ==
    /\ lastCall.calls >= 2
    /\ lastCall.start < maxWorkers
    /\ lastCall.before = maxWorkers
    /\ Size(workers) = maxWorkers

----------------------------------------------------------------------------
(* Claims about the watchdog *)

\* C10: the watchdog starts a recovery attempt on a tick exactly when that tick is the
\* maxFailures-th consecutive not-alive observation since the last alive observation
\* or the last recovery attempt; a run of k not-alive observations has started
\* floor(k / maxFailures) attempts.
C10_RecoveryEveryMaxFailures ==
    /\ wdRunRecoveries = wdRun \div maxFailures
    /\ failureCount = wdRun % maxFailures
    /\ wdLast.recovered <=> (wdLast.seen /\ ~wdLast.alive /\ wdRun % maxFailures = 0)

\* a run of seven not-alive observations, two recovery attempts behind it
C10_Witness ==
    /\ wdRun = 2 * maxFailures + 1
    /\ wdRunRecoveries = 2
    /\ ~wdLast.recovered

\* C11: after any recovery attempt, whether its commands succeed or fail, failureCount
\* is 0 and the tick callback that made the attempt has ended (the loop is watching
\* again); no outcome of the commands changes the counter later.
C11_CounterClearedAfterAttempt ==
    /\ [](wdLast.recovered => failureCount = 0)
    /\ [][/\ Len(wdAttempts') = Len(wdAttempts) + 1 =>
                /\ failureCount' = 0
                /\ probing' = probing - 1
                /\ wdAttempts'[Len(wdAttempts')].global = "running"
          /\ (Len(wdAttempts') = Len(wdAttempts) /\ wdAttempts' # wdAttempts) =>
                failureCount' = failureCount]_vars

\* the counter is 0 after an attempt whose commands both failed and after one whose
\* command succeeded
C11_Witness ==
    /\ Len(wdAttempts) >= 2
    /\ wdAttempts[1].global = "error"
    /\ wdAttempts[1].script = "error"
    /\ wdAttempts[2].global = "ok"
    /\ wdLast.recovered
    /\ failureCount = 0

\* C12: after any tick on which the service is observed alive, failureCount is 0 and
\* no recovery attempt was started on that tick.
C12_AliveClearsCounter ==
    /\ []((wdLast.seen /\ wdLast.alive) => (failureCount = 0 /\ ~wdLast.recovered))
    /\ [][(wdObserved' = wdObserved + 1 /\ wdLast'.alive) =>
              (failureCount' = 0 /\ wdAttempts' = wdAttempts)]_vars

\* two failures had been counted when the service was seen alive
C12_Witness ==
    /\ wdLast.seen
    /\ wdLast.alive
    /\ wdLast.before = maxFailures - 1
    /\ failureCount = 0
    /\ wdAttempts = <<>>

----------------------------------------------------------------------------
(* Claims about the recovery script *)

\* the locations that hold the boot entry file
Bootable == {s \in Sites : fs[s][BootFile] # Absent}

\* C14: the recovery procedure restores from the lowest-index site of the ordered list
\* that contains the boot entry file, whatever the assignment of boot-file presence to
\* the sites; no later site is used.
C14_FirstBootableSite ==
    [][recLast'.runs = recLast.runs + 1 =>
          IF Bootable = {}
          THEN recLast'.site = NoLocation
          ELSE /\ recLast'.site \in Bootable
               /\ \A s \in Bootable : recLast'.site <= s
               /\ \A f \in Files :
                     fs'[Primary][f] \in {fs[Primary][f], fs[recLast'.site][f]}]_vars

\* the script restored from the last location: an earlier backup location holds the
\* environment file but not the boot entry file
C14_Witness ==
    /\ recLast.runs = 1
    /\ recLast.site = NumSites - 1
    /\ \E s \in Sites : s > Primary /\ s < recLast.site /\ fs[s][".env"] # Absent

\* C15: when no location holds the boot entry file, one run of the recovery script
\* ends with the fatal outcome and changes nothing: no file at the primary, no
\* permission, alias or launch daemon, no launch, and the scan is not repeated.
C15_FatalRunChangesNothing ==
    [][(recLast'.runs = recLast.runs + 1 /\ Bootable = {}) =>
          /\ recLast'.outcome = "fatal"
          /\ fs' = fs
          /\ installed' = installed
          /\ launches' = launches]_vars

\* a fatal run on a disk that still holds other artifacts
C15_Witness ==
    /\ recLast.runs >= 1
    /\ recLast.outcome = "fatal"
    /\ launches = 0
    /\ installed = NothingInstalled
    /\ \E s \in Sites : fs[s][".env"] # Absent

\* C16: after a recovery run that found a bootable site S, every file present at S is
\* present at the primary location with the same content, and the service was launched.
C16_PrimaryHoldsWholeTree ==
    (recLast.runs >= 1 /\ recLast.site # NoLocation) =>
        /\ \A f \in Files :
              fs[recLast.site][f] # Absent => fs[Primary][f] = fs[recLast.site][f]
        /\ launches >= 1

----------------------------------------------------------------------------
(* Claims about the checksum registry *)

\* the locations that hold a readable copy of artifact f
PresentAt(f) == {s \in Sites : fs[s][f] # Absent}

\* C20: after createChecksumRegistry ran with no concurrent file change, for every
\* artifact readable at exactly N sites the registry's entry for it has exactly N
\* site keys, one per site holding it, each mapped to the hash of that site's copy;
\* a site missing the artifact has no key and no error entry.
C20_RegistryKeysArePresentCopies ==
    registry # NoRegistry =>
        \A f \in Files :
            IF PresentAt(f) = {}
            THEN f \notin DOMAIN registry.files
            ELSE /\ f \in DOMAIN registry.files
                 /\ DOMAIN registry.files[f] = PresentAt(f)
                 /\ Cardinality(DOMAIN registry.files[f]) = Cardinality(PresentAt(f))
                 /\ \A s \in PresentAt(f) : registry.files[f][s] = sha256(fs[s][f])

\* a registry built over a disk where one artifact is at two sites with different
\* contents, one is everywhere and one is nowhere
C20_Witness ==
    /\ registry # NoRegistry
    /\ PresentAt(BootFile) = {Primary, 1}
    /\ PresentAt("memory-indexer.js") = Sites
    /\ PresentAt(".env") = {}
    /\ registry.files[BootFile][Primary] # registry.files[BootFile][1]

----------------------------------------------------------------------------
(* Claims about replicateData *)

NoticesOf(site, kind) ==
    {k \in 1..Len(repNotices) : repNotices[k] = [site |-> site, kind |-> kind]}

AttemptsOf(site, j) ==
    {k \in 1..Len(repAttempts) : repAttempts[k].site = site /\ repAttempts[k].artifact = j}

\* C17: a replication pass in which every backup site is unreachable completes and has
\* logged exactly one failure notice per unreachable site and no success notice for
\* such a site.
C17_OneFailureNoticePerUnreachableSite ==
    (repPc.phase = "done" /\ repReachable = {}) =>
        \A site \in Backups :
            /\ Cardinality(NoticesOf(site, "failure")) = 1
            /\ NoticesOf(site, "success") = {}

\* C18: within one replication pass a failed copy never keeps the remaining pairs from
\* being attempted: no pair is attempted twice, and when the pass is done every
\* artifact of the manifest has been attempted at every backup site exactly once.
C18_EveryPairAttemptedOnce ==
    /\ \A site \in Backups, j \in 1..Len(criticalFiles) :
          Cardinality(AttemptsOf(site, j)) <= 1
    /\ repPc.phase = "done" =>
          /\ \A site \in Backups, j \in 1..Len(criticalFiles) :
                Cardinality(AttemptsOf(site, j)) = 1
          /\ Len(repAttempts) = Cardinality(Backups) * Len(criticalFiles)

\* a finished pass whose first copy failed on the read, whose second failed on the
\* write and whose last succeeded
C18_Witness ==
    /\ repPc.phase = "done"
    /\ repFs[primarySite][criticalFiles[1]] = Absent
    /\ repFs[primarySite][criticalFiles[2]] # Absent
    /\ ~repAttempts[1].ok
    /\ ~repAttempts[2].ok
    /\ repAttempts[Len(repAttempts)].ok

\* C19: backup sites are processed in list order and, within a site, artifacts in
\* manifest order: the copy of artifact j at site i comes after every copy at an
\* earlier site and after the copies of earlier artifacts at site i.
C19_SiteThenManifestOrder ==
    \A k, l \in 1..Len(repAttempts) :
        k < l =>
            \/ repAttempts[k].site < repAttempts[l].site
            \/ /\ repAttempts[k].site = repAttempts[l].site
               /\ repAttempts[k].artifact < repAttempts[l].artifact

\* the pass has reached the last artifact of the last site, copies written at both sites
C19_Witness ==
    /\ Len(repAttempts) = Cardinality(Backups) * Len(criticalFiles)
    /\ repAttempts[Len(repAttempts)].site = Len(replicationSites) - 1
    /\ repAttempts[Len(repAttempts)].artifact = Len(criticalFiles)
    /\ \A site \in Backups : \E k \in 1..Len(repAttempts) :
          repAttempts[k].site = site /\ repAttempts[k].ok

----------------------------------------------------------------------------
(* Claims about calculateChecksum and the saved registry *)

\* C21: calculateChecksum never raises: every call returns a value, the content hash of
\* the file for a readable artifact and the absent sentinel for a missing or unreadable
\* one; equal file contents give equal hashes.
C21_ChecksumOrNull ==
    regLast.builds >= 1 =>
        /\ \A s \in Sites, f \in Files :
              regLast.sums[s][f] = IF fs[s][f] = Absent THEN Null ELSE sha256(fs[s][f])
        /\ \A s, t \in Sites, f, g \in Files :
              (fs[s][f] # Absent /\ fs[s][f] = fs[t][g]) =>
                  regLast.sums[s][f] = regLast.sums[t][g]

\* the calls of one run met a missing artifact, two equal copies and a different copy
C21_Witness ==
    /\ regLast.builds >= 1
    /\ regLast.sums[1][".env"] = Null
    /\ regLast.sums[Primary][".env"] # Null
    /\ regLast.sums[Primary][".env"] = regLast.sums[2][".env"]
    /\ regLast.sums[1][BootFile] # Null
    /\ regLast.sums[1][BootFile] # regLast.sums[Primary][".env"]

\* C22: createChecksumRegistry writes the same registry document to every site that is
\* writable at that moment; a rejected write at one site is skipped, the remaining
\* sites still get the document, and the operation completes.
C22_DocumentAtEveryWritableSite ==
    [][regLast'.builds = regLast.builds + 1 =>
          \A s \in Sites :
              registryAt'[s] = IF s \in regLast'.writable THEN registry'
                                                          ELSE registryAt[s]]_vars

\* the write at the second site was rejected, the sites before and after it hold the
\* document
C22_Witness ==
    /\ regLast.builds >= 1
    /\ 1 \notin regLast.writable
    /\ registryAt[Primary] = registry
    /\ registryAt[1] = NoRegistry
    /\ registryAt[2] = registry
    /\ BootFile \in DOMAIN registry.files

----------------------------------------------------------------------------
(* Claims about the main service process *)

\* C23: when the main service has ended on a shutdown signal, every worker process it
\* owned was terminated before it exited, and none was spawned after the shutdown began.
C23_WorkersGoneAtExit ==
    bootExit = "signal" =>
        /\ \A n \in processes : children[n] = "gone"
        /\ \A n \in ServiceNames \ processes : children[n] = "none"

\* C24: no failure to start or keep a worker ends the main service process: it ends
\* only on a shutdown signal.
C24_MainEndsOnlyOnSignal ==
    bootPhase = "exited" => bootExit = "signal"

----------------------------------------------------------------------------
(* Claims about the pool's records and the status report *)

\* C35: in every supervisor state a logical worker id has at most one active record,
\* never an active record together with a pending restart timer, and never two
\* pending restart timers.
C35_OneRecordOrOneTimerPerId ==
    \A id \in Ids :
        /\ Cardinality(ActiveFor(id)) <= 1
        /\ ActiveFor(id) # {} => PendingFor(id) = {}
        /\ Cardinality(PendingFor(id)) <= 1
        /\ \A t \in PendingFor(id) : CopiesIn(t, restartTimers) = 1

\* a backup runs beside a restarted worker while another worker waits for its restart
C35_Witness ==
    /\ \E t \in 0..MaxTicks : ActiveFor(BackupId(t)) # {}
    /\ \E p \in DOMAIN workers : workers[p].restartCount >= 1
    /\ BagCardinality(restartTimers) >= 1

\* C36: in every status returned by getRedundancyStatus, aliveWorkers <= totalWorkers
\* and redundancyLevel is the classification of that aliveWorkers value.
C36_StatusAliveWithinTotal ==
    phase = "running" =>
    \A status \in Statuses :
        /\ status.aliveWorkers <= status.totalWorkers
        /\ status.redundancyLevel = redundancyLevel(status.aliveWorkers)

\* C37: getRedundancyStatus returns a well-defined, non-negative average uptime in
\* every reachable pool state, the empty pool included.
C37_AverageUptimeIsANumber ==
    phase = "running" =>
    \A status \in Statuses :
        /\ status.averageUptime.kind = "number"
        /\ status.averageUptime.num >= 0

----------------------------------------------------------------------------
(* Claims about what a replication pass reads and writes *)

\* C33: a replication pass only reads from the primary site and only writes to backup
\* sites: no step of replicateData creates, modifies or removes an artifact at the
\* primary site, and every copy is made at a backup site.
C33_PrimaryOnlyRead ==
    /\ [](\A k \in 1..Len(repAttempts) : repAttempts[k].site \in Backups)
    /\ [][repFs'[primarySite] = repFs[primarySite]]_vars

\* a finished pass: the last backup site has the copy of the first artifact, and an
\* old copy of the second, which the primary still lacks
C33_Witness ==
    /\ repPc.phase = "done"
    /\ repFs[primarySite][criticalFiles[1]] = Current
    /\ repFs[primarySite][criticalFiles[2]] = Absent
    /\ repFs[Len(replicationSites) - 1][criticalFiles[1]] = Current
    /\ repFs[Len(replicationSites) - 1][criticalFiles[2]] = Stale

\* C34: after a replication pass that completes with no read or write failure, every
\* manifest artifact present at the primary site exists at every backup site with
\* the primary's content.
C34_BackupsEqualPrimaryAfterCleanPass ==
    (/\ repPc.phase = "done"
     /\ \A k \in 1..Len(repAttempts) : repAttempts[k].ok) =>
        \A site \in Backups, f \in Manifest :
            repFs[primarySite][f] # Absent => repFs[site][f] = repFs[primarySite][f]

\* a clean pass that replaced the old copies of the first backup site and filled the
\* empty second one
C34_Witness ==
    /\ repPc.phase = "done"
    /\ \A k \in 1..Len(repAttempts) : repAttempts[k].ok
    /\ repAttempts[1].before = Stale
    /\ repAttempts[Len(repAttempts)].before = Absent
    /\ \A site \in Backups, f \in Manifest : repFs[site][f] = Current

----------------------------------------------------------------------------
(* Claims about exit events and the failover queue *)

\* C26: the failover queue is append-only and terminal: no step removes or reorders
\* an entry, a retirement appends exactly the id of the record removed, and an id in
\* the queue has no restart scheduled and no active record in any later state.
C26_QueueAppendOnlyTerminal ==
    /\ [](\A i \in 1..Len(failoverQueue) :
             /\ ActiveFor(failoverQueue[i]) = {}
             /\ PendingFor(failoverQueue[i]) = {}
             /\ \A j \in 1..Len(failoverQueue) : failoverQueue[j] = failoverQueue[i] => j = i)
    /\ [][\/ failoverQueue' = failoverQueue
          \/ \E pid \in DOMAIN workers \ DOMAIN workers' :
                /\ workers[pid].restartCount >= maxRestartAttempts
                /\ failoverQueue' = Append(failoverQueue, workers[pid].id)]_vars

\* two workers retired, in the order of their last exits, while the third was restarted
C26_Witness ==
    /\ failoverQueue = <<WorkerId(2), WorkerId(0)>>
    /\ \E p \in ActiveFor(WorkerId(1)) : workers[p].restartCount = 1

\* C27: handling an exit event removes the record keyed by the exited handle, so no
\* record with that handle remains; an exit event for a handle without a record
\* leaves the worker map, the failover queue and the pending restarts as they were.
C27_ExitRemovesRecordOrNothing ==
    lastExit.seen =>
        /\ lastExit.pid \notin DOMAIN workers
        /\ lastExit.known => ~lastExit.same
        /\ ~lastExit.known => lastExit.same

\* an exit event for an unregistered handle, with a worker retired and a restart pending
C27_Witness ==
    /\ lastExit.seen
    /\ ~lastExit.known
    /\ Len(failoverQueue) >= 1
    /\ BagCardinality(restartTimers) >= 1

\* C31: under fairness of the restart timers, every exit of a registered worker whose
\* record has restartCount < maxRestartAttempts, which leaves a restart pending for
\* its id, is eventually followed by a new active record with that id.
C31_RestartEventuallyRespawns ==
    \A i \in 0..(InitialWorkers - 1) :
        (PendingFor(WorkerId(i)) # {}) ~> (ActiveFor(WorkerId(i)) # {})

\* worker-0 has exited once and runs again, on its first restart
C31_Witness ==
    /\ exitCount[WorkerId(0)] = 1
    /\ PendingFor(WorkerId(0)) = {}
    /\ \E p \in ActiveFor(WorkerId(0)) : workers[p].restartCount = 1

\* C32: no logical worker id is respawned more than maxRestartAttempts times: no
\* record or pending restart goes beyond the limit, an id has at most
\* maxRestartAttempts + 1 exits, and after the last one it is retired, with no record
\* and no restart pending.
C32_RespawnsWithinBudget ==
    /\ \A p \in DOMAIN workers : workers[p].restartCount <= maxRestartAttempts
    /\ \A t \in BagToSet(restartTimers) : t.restartCount < maxRestartAttempts
    /\ \A id \in Ids :
          /\ exitCount[id] <= maxRestartAttempts + 1
          /\ exitCount[id] = maxRestartAttempts + 1 =>
                /\ Retired(id)
                /\ ActiveFor(id) = {}
                /\ PendingFor(id) = {}

\* worker-0 has exited after every start, the last time on its fifth restart, and is
\* retired
C32_Witness ==
    /\ exitCount[WorkerId(0)] = maxRestartAttempts + 1
    /\ Retired(WorkerId(0))
    /\ lastExit.pid = <<WorkerId(0), maxRestartAttempts, 0>>

----------------------------------------------------------------------------
(* Claims about the watchdog's loop and probe *)

\* C25: a recovery attempt whose restart command and recovery script both failed
\* never stops the watchdog loop: the watchdog keeps watching, and a not-alive
\* observation made after the failure, with the counter reset, counts 1.
C25_FailedRecoveryKeepsWatching ==
    /\ \A a \in 1..Len(wdAttempts) : Failed(wdAttempts[a]) => Watching
    /\ (wdLast.afterFailed /\ ~wdLast.alive /\ wdLast.before = 0) => failureCount = 1

C25_Witness ==
    /\ Len(wdAttempts) >= 1
    /\ Failed(wdAttempts[1])
    /\ wdLast.afterFailed
    /\ ~wdLast.alive
    /\ wdLast.before = 0
    /\ failureCount = 1

\* C38: failureCount stays within 0..maxFailures, and below maxFailures whenever no
\* tick callback is in progress, also when the callbacks of successive ticks overlap;
\* no not-alive observation counts towards two recovery attempts: the attempts made
\* and the failures now counted are covered by distinct observations.
C38_CounterWithinBounds ==
    /\ failureCount \in 0..maxFailures
    /\ probing = 0 => failureCount < maxFailures
    /\ Len(wdAttempts) * maxFailures + failureCount <= wdObserved

\* a recovery attempt starts in one callback while the callback of a later tick
\* still waits for its probe
C38_Witness ==
    /\ wdLast.recovered
    /\ probing >= 1
    /\ Len(wdAttempts) = 1
    /\ wdObserved = maxFailures

\* C30: the liveness probe reports alive exactly when the main service process is
\* running.
C30_ProbeAliveIffMainRuns == wdLast.seen => (wdLast.alive <=> wdLast.main)

----------------------------------------------------------------------------
(* Claims about the GitHub cache *)

\* C28: a get issued after a set with the same method, path and params, before the TTL
\* has elapsed and with no delete, clear or eviction of that key in between, returns
\* the data that was stored.
C28_GetReturnsWhatWasSet ==
    (/\ cacheLast.op = "get"
     /\ cacheLast.key \in DOMAIN cacheExpected
     /\ cacheNow - cacheExpected[cacheLast.key].time <= CacheTtl) =>
        cacheLast.result = cacheExpected[cacheLast.key].data

====
